---------------------------- MODULE Spec2Model ----------------------------
(***************************************************************************)
(* A model of the file splitter (src/分割.py): the size-token parser       *)
(* parse_size, the chunked copy split_file, and the window's start_split / *)
(* run_split / log queue around them.                                      *)
(*                                                                         *)
(* Strings are sequences of one-character strings.  Python integers are    *)
(* unbounded, so the values parse_size computes are kept as binary         *)
(* numerals (little-endian bit sequences, no high zero bit); byte counts   *)
(* that reach split_file are ordinary integers.                            *)
(***************************************************************************)
EXTENDS Integers, Sequences, FiniteSets, TLC

(***************************************************************************)
(* Bounds of the model.                                                    *)
(***************************************************************************)
\* longest explicit plan handed directly to split_file
MaxPlanLen == 3
\* length of the one long plan of one-byte chunks (past the 3-digit suffix)
LongPlanLen == 1000
\* number of times the start button is pressed
MaxPresses == 2

(***************************************************************************)
(* Program constants.                                                      *)
(***************************************************************************)
\* file.read(min(remaining, 1024 * 1024))
ReadMax == 1048576
\* the minimum field width of {chunk_number:03d}
PadWidth == 3
\* significand bits of a Python float (IEEE 754 binary64), float(match.group(1))
MantBits == 53
\* the largest float is below 2^1024 (line 19)
MaxExp == 1024
\* and below 10^309: it has 309 decimal digits
MaxDigits == 309

(***************************************************************************)
(* Unbounded naturals (Python int): little-endian sequences of limbs in    *)
(* base 2^15, without a high zero limb; <<>> is zero.                      *)
(***************************************************************************)
\* 2^15: the product of two limbs fits the integers of the model checker
LimbBase == 2^15

BZero == <<>>
BOne == <<1>>

RECURSIVE BNorm(_)
BNorm(a) == IF a = <<>> THEN <<>>
            ELSE IF a[Len(a)] = 0 THEN BNorm(SubSeq(a, 1, Len(a) - 1))
            ELSE a

RECURSIVE BFromInt(_)
BFromInt(n) == IF n = 0 THEN <<>>
               ELSE <<n % LimbBase>> \o BFromInt(n \div LimbBase)

\* a < 2^31: the value fits an integer of the model checker
BFits(a) == Len(a) <= 2 \/ (Len(a) = 3 /\ a[3] <= 1)

BToInt(a) == (IF Len(a) >= 1 THEN a[1] ELSE 0)
             + (IF Len(a) >= 2 THEN a[2] * LimbBase ELSE 0)
             + (IF Len(a) >= 3 THEN a[3] * LimbBase * LimbBase ELSE 0)

Limb(a, i) == IF i <= Len(a) THEN a[i] ELSE 0

\* limbs i.. of a + b with carry c into limb i
RECURSIVE BAddAt(_, _, _, _)
BAddAt(a, b, i, c) ==
    IF i > Len(a) /\ i > Len(b) THEN (IF c = 0 THEN <<>> ELSE <<c>>)
    ELSE LET s == Limb(a, i) + Limb(b, i) + c
         IN  <<s % LimbBase>> \o BAddAt(a, b, i + 1, s \div LimbBase)

BAdd(a, b) == BAddAt(a, b, 1, 0)

\* limbs i.. of a - b with borrow c out of limb i, for a >= b
RECURSIVE BSubAt(_, _, _, _)
BSubAt(a, b, i, c) ==
    IF i > Len(a) THEN <<>>
    ELSE LET s == Limb(a, i) - Limb(b, i) - c
         IN  <<s % LimbBase>> \o BSubAt(a, b, i + 1, IF s < 0 THEN 1 ELSE 0)

BSub(a, b) == BNorm(BSubAt(a, b, 1, 0))

\* compare from the high limb down: -1, 0, 1
RECURSIVE BCmpAt(_, _, _)
BCmpAt(a, b, i) ==
    IF i = 0 THEN 0
    ELSE IF a[i] > b[i] THEN 1
    ELSE IF a[i] < b[i] THEN -1
    ELSE BCmpAt(a, b, i - 1)

BCmp(a, b) == IF Len(a) > Len(b) THEN 1
              ELSE IF Len(a) < Len(b) THEN -1
              ELSE BCmpAt(a, b, Len(a))

\* a * m for 0 <= m <= 2^15
RECURSIVE BMulSmallAt(_, _, _, _)
BMulSmallAt(a, m, i, c) ==
    IF i > Len(a) THEN (IF c = 0 THEN <<>> ELSE <<c>>)
    ELSE LET s == a[i] * m + c
         IN  <<s % LimbBase>> \o BMulSmallAt(a, m, i + 1, s \div LimbBase)

BMulSmall(a, m) == BNorm(BMulSmallAt(a, m, 1, 0))

\* a \div m for 1 <= m <= 2^15, from the high limb down with remainder r
RECURSIVE BDivSmallAt(_, _, _, _)
BDivSmallAt(a, m, i, r) ==
    IF i = 0 THEN <<>>
    ELSE LET s == r * LimbBase + a[i]
         IN  BDivSmallAt(a, m, i - 1, s % m) \o <<s \div m>>

BDivSmall(a, m) == BNorm(BDivSmallAt(a, m, Len(a), 0))

\* a * 2^k
BShl(a, k) == IF a = <<>> THEN <<>>
              ELSE BMulSmall([i \in 1..(k \div 15) |-> 0] \o a,
                             2^(k % 15))

\* a \div 2^k
BShr(a, k) == IF (k \div 15) >= Len(a) THEN <<>>
              ELSE BDivSmall(SubSeq(a, (k \div 15) + 1, Len(a)),
                             2^(k % 15))

\* the number of bits of a
BitLen(a) == IF a = <<>> THEN 0
             ELSE 15 * (Len(a) - 1)
                  + (CHOOSE k \in 1..15 :
                        2^(k - 1) <= a[Len(a)] /\ a[Len(a)] < 2^k)

BOdd(a) == a # <<>> /\ a[1] % 2 = 1

\* a * b, limb i of b onward
RECURSIVE BMulAt(_, _, _)
BMulAt(a, b, i) ==
    IF i > Len(b) THEN <<>>
    ELSE BAdd(BMulSmall(a, b[i]),
              LET hi == BMulAt(a, b, i + 1)
              IN  IF hi = <<>> THEN <<>> ELSE <<0>> \o hi)

BMul(a, b) == BNorm(BMulAt(a, b, 1))

\* 10^d, by squaring
RECURSIVE BPow10(_)
BPow10(d) == IF d = 0 THEN BOne
             ELSE LET h == BPow10(d \div 2)
                  IN  IF d % 2 = 0 THEN BMul(h, h) ELSE BMulSmall(BMul(h, h), 10)

(***************************************************************************)
(* Characters.                                                             *)
(***************************************************************************)
DigitChars == <<"0", "1", "2", "3", "4", "5", "6", "7", "8", "9">>
Digits == {DigitChars[i] : i \in 1..10}
DigitVal(c) == (CHOOSE i \in 1..10 : DigitChars[i] = c) - 1
Whitespace == {" ", "\t"}
UpperChars == <<"B", "K", "M", "G", "X">>
LowerChars == <<"b", "k", "m", "g", "x">>

\* str.lower() on one character
LowerChar(c) == IF \E i \in 1..Len(UpperChars) : UpperChars[i] = c
                THEN LowerChars[CHOOSE i \in 1..Len(UpperChars) : UpperChars[i] = c]
                ELSE c

\* str.lower()
Lower(s) == [i \in 1..Len(s) |-> LowerChar(s[i])]

\* str.strip()
RECURSIVE LStrip(_)
LStrip(s) == IF s # <<>> /\ s[1] \in Whitespace THEN LStrip(Tail(s)) ELSE s

RECURSIVE RStrip(_)
RStrip(s) == IF s # <<>> /\ s[Len(s)] \in Whitespace
             THEN RStrip(SubSeq(s, 1, Len(s) - 1)) ELSE s

Strip(s) == RStrip(LStrip(s))

\* str.rstrip('b')
RECURSIVE RStripB(_)
RStripB(s) == IF s # <<>> /\ s[Len(s)] = "b"
              THEN RStripB(SubSeq(s, 1, Len(s) - 1)) ELSE s

(***************************************************************************)
(* float(): the IEEE 754 binary64 nearest to a decimal numeral, ties to    *)
(* even.  A float is <<m, s>>, standing for m * 2^(-s); m is a numeral of  *)
(* MantBits bits (2^MantBits after a carry, zero for 0.0), s an integer.   *)
(* A value of 2^MaxExp or more is inf.  Tokens stay far above the          *)
(* subnormal range.                                                        *)
(***************************************************************************)
\* the value of a string of decimal digits
RECURSIVE DigitsToB(_)
DigitsToB(ds) ==
    IF ds = <<>> THEN BZero
    ELSE IF Len(ds) = 1 THEN BFromInt(DigitVal(ds[1]))
    ELSE LET h == Len(ds) \div 2
         IN  BAdd(BMul(DigitsToB(SubSeq(ds, 1, h)), BPow10(Len(ds) - h)),
                  DigitsToB(SubSeq(ds, h + 1, Len(ds))))

\* the next k quotient bits of r / d, for r < d, up to six bits at a time:
\* <<quotient, remainder>>

RECURSIVE DivSteps(_, _, _)
DivSteps(r, d, k) ==
    IF k = 0 THEN <<BZero, r>>
    ELSE LET w    == IF k < 6 THEN k ELSE 6
             r2   == BMulSmall(r, 2^w)
             qd   == CHOOSE q \in 0..(2^w - 1) :
                        /\ BCmp(BMulSmall(d, q), r2) <= 0
                        /\ BCmp(r2, BMulSmall(d, q + 1)) < 0
             rest == DivSteps(BSub(r2, BMulSmall(d, qd)), d, k - w)
         IN  <<BAdd(BShl(BFromInt(qd), k - w), rest[1]), rest[2]>>

\* float(p / 10^d): an integer of at most MantBits bits is itself;
\* otherwise the first MantBits bits of the quotient, then rounding on the
\* remainder
ToFloat(p, d) ==
    IF p = <<>> THEN <<BZero, 0>>
    ELSE IF d = 0 /\ BitLen(p) <= MantBits THEN <<p, 0>>
    ELSE LET den  == BPow10(d)
             L    == BitLen(p) - BitLen(den)
             num0 == IF L >= 0 THEN p ELSE BShl(p, -L)
             den0 == IF L >= 0 THEN BShl(den, L) ELSE den
             one  == BCmp(num0, den0) >= 0
             k    == IF one THEN MantBits - 1 ELSE MantBits
             qr   == DivSteps(IF one THEN BSub(num0, den0) ELSE num0, den0, k)
             q    == IF one THEN BAdd(BShl(BOne, k), qr[1]) ELSE qr[1]
             c    == BCmp(BAdd(qr[2], qr[2]), den0)
             up   == c > 0 \/ (c = 0 /\ BOdd(q))
         IN  <<IF up THEN BAdd(q, BOne) ELSE q, k - L>>

\* float * 1024**k: exact, the exponent moves
FloatTimesPow2(f, e) == <<f[1], f[2] - e>>

\* inf, as the least value that stands for it
Inf == <<BOne, -MaxExp>>

\* the float is inf: float() of a numeral past the largest float, or a
\* product that overflows
IsInf(f) == f[1] # <<>> /\ BitLen(f[1]) - f[2] > MaxExp

\* int(float): truncation toward zero
IntOfFloat(f) == IF f[2] >= 0 THEN BShr(f[1], f[2]) ELSE BShl(f[1], -f[2])

(***************************************************************************)
(* re.match of size_str against the pattern                                *)
(*     ^  ( \d+ \.? \d* )  \s*  ( [kmgb]? )  ( b? )  $                       *)
(* Neither \s, [kmgb] nor b matches a digit or a dot, so group 1 is the    *)
(* longest prefix of digits and dots, and it must have the shape of the    *)
(* first group; the groups are taken greedily.                             *)
(***************************************************************************)
NumEnd(s) == CHOOSE n \in 0..Len(s) :
                 /\ \A i \in 1..n : s[i] \in Digits \cup {"."}
                 /\ (n < Len(s) => s[n + 1] \notin Digits \cup {"."})

DotCount(s) == Cardinality({i \in 1..Len(s) : s[i] = "."})

UnitLetters == {"k", "m", "g", "b"}

ReMatch(s) ==
    LET n    == NumEnd(s)
        g1   == SubSeq(s, 1, n)
        rest == LStrip(SubSeq(s, n + 1, Len(s)))
        ok   == /\ n >= 1
                /\ g1[1] \in Digits
                /\ DotCount(g1) <= 1
                /\ Len(rest) <= 2
                /\ (rest # <<>> => rest[1] \in UnitLetters)
                /\ (Len(rest) = 2 => rest[2] = "b")
    IN  IF ok
        THEN [matched |-> TRUE, g1 |-> g1,
              g2 |-> IF rest = <<>> THEN <<>> ELSE <<rest[1]>>,
              g3 |-> IF Len(rest) = 2 THEN <<rest[2]>> ELSE <<>>]
        ELSE [matched |-> FALSE, g1 |-> <<>>, g2 |-> <<>>, g3 |-> <<>>]

\* the number of leading zeros of a string of digits
LeadingZeros(ds) == CHOOSE n \in 0..Len(ds) :
                        /\ \A i \in 1..n : ds[i] = "0"
                        /\ (n < Len(ds) => ds[n + 1] # "0")

\* float(match.group(1)): the digits without the dot, scaled by 10^-(digits
\* after it); inf at once for an integer part of more than MaxDigits digits
FloatOfGroup(g1) ==
    LET dot  == IF DotCount(g1) = 0 THEN Len(g1) + 1
                ELSE CHOOSE i \in 1..Len(g1) : g1[i] = "."
        int  == SubSeq(g1, 1, dot - 1)
        ds   == int \o SubSeq(g1, dot + 1, Len(g1))
        frac == IF dot > Len(g1) THEN 0 ELSE Len(g1) - dot
    IN  IF Len(int) - LeadingZeros(int) > MaxDigits THEN Inf
        ELSE ToFloat(DigitsToB(ds), frac)

(***************************************************************************)
(* parse_size: [ok |-> TRUE, val |-> numeral] or the exception raised,     *)
(* [ok |-> FALSE, err |-> kind, arg |-> the string in the message]: a      *)
(* ValueError for "format" and "unit", the OverflowError of int(inf) for   *)
(* "overflow".                                                             *)
(***************************************************************************)
Returned(v) == [ok |-> TRUE, val |-> v]
Raised(kind, arg) == [ok |-> FALSE, err |-> kind, arg |-> arg]

UnitExponent(unit_part) ==
    IF unit_part \in {<<>>, <<"b">>} THEN 0
    ELSE IF unit_part \in {<<"k">>, <<"k", "b">>} THEN 10
    ELSE IF unit_part \in {<<"m">>, <<"m", "b">>} THEN 20
    ELSE IF unit_part \in {<<"g">>, <<"g", "b">>} THEN 30
    ELSE -1

\* lines 23-32: the branch of the unit, and int() of the product
ParseUnit(number, unit_part) ==
    LET e == UnitExponent(unit_part)
    IN  IF e < 0 THEN Raised("unit", unit_part)
        ELSE IF IsInf(FloatTimesPow2(number, e)) THEN Raised("overflow", <<>>)
        ELSE Returned(IntOfFloat(FloatTimesPow2(number, e)))

\* lines 16-32, with the match of line 15.  Here and below,
\* CHOOSE r \in {F(x) : x \in {e}} : TRUE is F(e), with e evaluated once.
ParseMatch(size_str, match) ==
    IF ~match.matched THEN Raised("format", size_str)
    ELSE CHOOSE r \in {ParseUnit(number, RStripB(match.g2 \o match.g3)) :
                          number \in {FloatOfGroup(match.g1)}} : TRUE

\* lines 11-32, on the string stripped and in lower case
ParseStripped(size_str) ==
    IF size_str = <<>> THEN Returned(BZero)
    ELSE CHOOSE r \in {ParseMatch(size_str, match) :
                          match \in {ReMatch(size_str)}} : TRUE

parse_size(size_str0) ==
    CHOOSE r \in {ParseStripped(size_str) :
                     size_str \in {Lower(Strip(size_str0))}} : TRUE

(***************************************************************************)
(* File contents.  The source file is source_size bytes; a byte is known   *)
(* by its offset in the source.  A content is a sequence of extents        *)
(* [off, len]: len source bytes from offset off, or, with off = Hole, len  *)
(* zero bytes left by a write past the end of a file.  Adjacent extents    *)
(* that continue each other are kept merged, so equal byte sequences are   *)
(* equal contents.                                                         *)
(***************************************************************************)
Hole == -1

Ext(off, len) == [off |-> off, len |-> len]

\* bytes [from, from + n) of the source, as a content
Slice(from, n) == IF n = 0 THEN <<>> ELSE <<Ext(from, n)>>

Continues(e, f) == \/ e.off = Hole /\ f.off = Hole
                   \/ e.off # Hole /\ f.off = e.off + e.len

\* concatenation of two contents, merged at the seam
Cat(a, b) ==
    IF a = <<>> THEN b
    ELSE IF b = <<>> THEN a
    ELSE IF Continues(a[Len(a)], b[1])
         THEN SubSeq(a, 1, Len(a) - 1)
              \o <<Ext(a[Len(a)].off, a[Len(a)].len + b[1].len)>>
              \o Tail(b)
         ELSE a \o b

RECURSIVE Size(_)
Size(c) == IF c = <<>> THEN 0 ELSE c[1].len + Size(Tail(c))

\* the first n bytes of c, for n <= Size(c)
RECURSIVE TakeBytes(_, _)
TakeBytes(c, n) ==
    IF n = 0 \/ c = <<>> THEN <<>>
    ELSE IF c[1].len <= n THEN Cat(<<c[1]>>, TakeBytes(Tail(c), n - c[1].len))
    ELSE <<Ext(c[1].off, n)>>

\* c without its first n bytes
RECURSIVE DropBytes(_, _)
DropBytes(c, n) ==
    IF c = <<>> THEN <<>>
    ELSE IF n = 0 THEN c
    ELSE IF c[1].len <= n THEN DropBytes(Tail(c), n - c[1].len)
    ELSE <<Ext(IF c[1].off = Hole THEN Hole ELSE c[1].off + n, c[1].len - n)>>
         \o Tail(c)

\* write(data) through a handle at position pos of a file holding c
WriteAt(c, pos, data) ==
    LET padded == IF Size(c) < pos THEN Cat(c, <<Ext(Hole, pos - Size(c))>>) ELSE c
    IN  Cat(Cat(TakeBytes(padded, pos), data), DropBytes(c, pos + Size(data)))

\* the whole source
Whole(T) == Slice(0, T)

(***************************************************************************)
(* f"{chunk_number:03d}": the decimal digits, zero-padded to PadWidth at   *)
(* least.  A chunk file is known by this suffix of its name (one source    *)
(* file and one output directory are modelled).                            *)
(***************************************************************************)
RECURSIVE DecDigits(_)
DecDigits(n) == IF n < 10 THEN <<DigitChars[n + 1]>>
                ELSE DecDigits(n \div 10) \o <<DigitChars[(n % 10) + 1]>>

Format03d(n) ==
    LET ds == DecDigits(n)
    IN  IF Len(ds) >= PadWidth THEN ds
        ELSE [i \in 1..(PadWidth - Len(ds)) |-> "0"] \o ds

(***************************************************************************)
(* State.                                                                  *)
(***************************************************************************)
VARIABLES
    source_size,   \* os.path.getsize(input_file): the bytes of the source file
    dir_exists,    \* os.path.exists(output_dir)
    disk,          \* the chunk files of the output directory: name -> content
    th,            \* the worker threads (run_split), by the press that starts them
    log_queue,     \* self.log_queue
    log_area,      \* the lines of self.log_area
    after_queue,   \* callbacks scheduled with self.after(0, ...) by workers
    ui,            \* the last press of the start button and what it showed
    token,         \* parse_size alone: its argument
    parsed         \* parse_size alone: its outcome

vars == <<source_size, dir_exists, disk, th, log_queue, log_area, after_queue,
          ui, token, parsed>>

Threads == 1..MaxPresses

NoFile == <<>>

\* a thread that has not been started
IdleThread ==
    [pc |-> "idle", chunk_sizes |-> <<>>, i |-> 0, chunk_number |-> 0,
     size |-> 0, remaining |-> 0, chunk |-> <<>>, remaining_data |-> <<>>,
     file_open |-> FALSE, file_pos |-> 0,
     chunk_file_name |-> NoFile, chunk_open |-> FALSE, chunk_pos |-> 0,
     error |-> "", opened |-> <<>>, auto |-> FALSE, dir_before |-> <<>>]

\* the thread as threading.Thread(target=run_split).start() leaves it:
\* about to call split_file with the plan
StartedThread(plan, auto) ==
    [IdleThread EXCEPT !.pc = "makedirs", !.chunk_sizes = plan, !.auto = auto]

\* parse_size alone has not been called
NotCalled == [called |-> FALSE]

\* the start button has not been pressed
NoPress == [presses |-> 0, size_entry |-> <<>>, result |-> "none"]

\* self.log_message(msg) from thread w
LogMessage(w, msg) == log_queue' = Append(log_queue, [by |-> w] @@ msg)

(***************************************************************************)
(* split_file, one step per file operation.  A worker touches only its own *)
(* record of th, the disk and the log queue.                               *)
(***************************************************************************)
WorkerFrame == UNCHANGED <<source_size, log_area, ui, token, parsed>>

Min(a, b) == IF a < b THEN a ELSE b

\* open(chunk_file_path, "wb"): the file is created, or truncated
Truncated(d, name) == (name :> <<>>) @@ d

\* lines 35-36: os.makedirs(output_dir) when it does not exist
MakeDirs(w) ==
    /\ th[w].pc = "makedirs"
    /\ dir_exists' = TRUE
    /\ th' = [th EXCEPT ![w].pc = "open_file"]
    /\ UNCHANGED <<disk, log_queue, after_queue>>
    /\ WorkerFrame

\* lines 40-41: open(file_path, "rb"); chunk_number = 1
OpenFile(w) ==
    /\ th[w].pc = "open_file"
    /\ th' = [th EXCEPT ![w].pc = "loop", ![w].file_open = TRUE,
                        ![w].file_pos = 0, ![w].chunk_number = 1]
    /\ UNCHANGED <<dir_exists, disk, log_queue, after_queue>>
    /\ WorkerFrame

\* OpenChunk with open(chunk_file_path, "ab"): the file is kept and written
\* from its end
OpenChunk_Append(w) ==
    /\ th[w].pc = "loop"
    /\ th[w].i < Len(th[w].chunk_sizes)
    /\ LET size == th[w].chunk_sizes[th[w].i + 1]
           chunk_file_name == Format03d(th[w].chunk_number)
           kept == IF chunk_file_name \in DOMAIN disk
                   THEN disk ELSE Truncated(disk, chunk_file_name)
       IN  /\ disk' = kept
           /\ th' = [th EXCEPT ![w].pc = IF size > 0 THEN "copy" ELSE "close",
                               ![w].i = @ + 1,
                               ![w].size = size,
                               ![w].remaining = size,
                               ![w].chunk_file_name = chunk_file_name,
                               ![w].chunk_open = TRUE,
                               ![w].chunk_pos = Size(kept[chunk_file_name]),
                               ![w].opened = Append(@,
                                   [entry |-> th[w].i + 1,
                                    number |-> th[w].chunk_number,
                                    name |-> chunk_file_name])]
    /\ UNCHANGED <<dir_exists, log_queue, after_queue>>
    /\ WorkerFrame

\* OpenChunk that makes no file for an entry of size 0: the entry and its
\* index are passed over
OpenChunk_SkipEmpty(w) ==
    /\ th[w].pc = "loop"
    /\ th[w].i < Len(th[w].chunk_sizes)
    /\ LET size == th[w].chunk_sizes[th[w].i + 1]
           chunk_file_name == Format03d(th[w].chunk_number)
       IN  IF size = 0
           THEN /\ disk' = disk
                /\ th' = [th EXCEPT ![w].i = @ + 1, ![w].chunk_number = @ + 1]
           ELSE /\ disk' = Truncated(disk, chunk_file_name)
                /\ th' = [th EXCEPT ![w].pc = "copy",
                                    ![w].i = @ + 1,
                                    ![w].size = size,
                                    ![w].remaining = size,
                                    ![w].chunk_file_name = chunk_file_name,
                                    ![w].chunk_open = TRUE,
                                    ![w].chunk_pos = 0,
                                    ![w].opened = Append(@,
                                        [entry |-> th[w].i + 1,
                                         number |-> th[w].chunk_number,
                                         name |-> chunk_file_name])]
    /\ UNCHANGED <<dir_exists, log_queue, after_queue>>
    /\ WorkerFrame

\* lines 42-47: the next size of the plan; the chunk file is opened
OpenChunk(w) ==
    /\ th[w].pc = "loop"
    /\ th[w].i < Len(th[w].chunk_sizes)
    /\ LET size == th[w].chunk_sizes[th[w].i + 1]
           chunk_file_name == Format03d(th[w].chunk_number)
       IN  /\ disk' = Truncated(disk, chunk_file_name)
           /\ th' = [th EXCEPT ![w].pc = IF size > 0 THEN "copy" ELSE "close",
                               ![w].i = @ + 1,
                               ![w].size = size,
                               ![w].remaining = size,
                               ![w].chunk_file_name = chunk_file_name,
                               ![w].chunk_open = TRUE,
                               ![w].chunk_pos = 0,
                               ![w].opened = Append(@,
                                   [entry |-> th[w].i + 1,
                                    number |-> th[w].chunk_number,
                                    name |-> chunk_file_name])]
    /\ UNCHANGED <<dir_exists, log_queue, after_queue>>
    /\ WorkerFrame

\* file.read(1024 * 1024) in place of file.read(min(remaining, 1024 * 1024))
ReadLen_ToLimit(n, pos) == Min(ReadMax, source_size - pos)

\* the bytes file.read(n) returns at position pos
ReadLen(n, pos) == Min(n, source_size - pos)

\* ReadChunk without "if not chunk: break": an empty read is written too
ReadChunk_NoBreak(w) ==
    /\ th[w].pc = "copy"
    /\ LET n == ReadLen(Min(th[w].remaining, ReadMax), th[w].file_pos)
       IN  th' = [th EXCEPT ![w].pc = "write",
                            ![w].chunk = Slice(th[w].file_pos, n),
                            ![w].file_pos = @ + n]
    /\ UNCHANGED <<dir_exists, disk, log_queue, after_queue>>
    /\ WorkerFrame

\* lines 48-51: chunk = file.read(min(remaining, 1024 * 1024)); break at EOF
ReadChunk(w) ==
    /\ th[w].pc = "copy"
    /\ LET n == ReadLen(Min(th[w].remaining, ReadMax), th[w].file_pos)
       IN  th' = [th EXCEPT ![w].pc = IF n = 0 THEN "close" ELSE "write",
                            ![w].chunk = Slice(th[w].file_pos, n),
                            ![w].file_pos = @ + n]
    /\ UNCHANGED <<dir_exists, disk, log_queue, after_queue>>
    /\ WorkerFrame

\* lines 52-53 and the loop test of line 48
WriteChunk(w) ==
    /\ th[w].pc = "write"
    /\ disk' = [disk EXCEPT ![th[w].chunk_file_name] =
                    WriteAt(@, th[w].chunk_pos, th[w].chunk)]
    /\ th' = [th EXCEPT ![w].pc = IF th[w].remaining - Size(th[w].chunk) > 0
                                   THEN "copy" ELSE "close",
                        ![w].chunk_pos = @ + Size(th[w].chunk),
                        ![w].remaining = @ - Size(th[w].chunk)]
    /\ UNCHANGED <<dir_exists, log_queue, after_queue>>
    /\ WorkerFrame

\* CloseChunk without the close: the handle of the chunk file stays open
CloseChunk_LeavesOpen(w) ==
    /\ th[w].pc = "close"
    /\ th' = [th EXCEPT ![w].pc = "getsize"]
    /\ UNCHANGED <<dir_exists, disk, log_queue, after_queue>>
    /\ WorkerFrame

\* the end of the with block of line 46: the chunk file is closed
CloseChunk(w) ==
    /\ th[w].pc = "close"
    /\ th' = [th EXCEPT ![w].pc = "getsize", ![w].chunk_open = FALSE]
    /\ UNCHANGED <<dir_exists, disk, log_queue, after_queue>>
    /\ WorkerFrame

\* LogChunk without chunk_number += 1
LogChunk_NoIncrement(w) ==
    /\ th[w].pc = "getsize"
    /\ LogMessage(w, [kind |-> "chunk",
                      number |-> Format03d(th[w].chunk_number),
                      size |-> th[w].size,
                      actual_size |-> Size(disk[th[w].chunk_file_name])])
    /\ th' = [th EXCEPT ![w].pc = "loop"]
    /\ UNCHANGED <<dir_exists, disk, after_queue>>
    /\ WorkerFrame

\* LogChunk reporting the requested size as the actual size
LogChunk_RequestedSize(w) ==
    /\ th[w].pc = "getsize"
    /\ LogMessage(w, [kind |-> "chunk",
                      number |-> Format03d(th[w].chunk_number),
                      size |-> th[w].size,
                      actual_size |-> th[w].size])
    /\ th' = [th EXCEPT ![w].pc = "loop", ![w].chunk_number = @ + 1]
    /\ UNCHANGED <<dir_exists, disk, after_queue>>
    /\ WorkerFrame

\* lines 54-56: os.path.getsize, the progress message, chunk_number += 1
LogChunk(w) ==
    /\ th[w].pc = "getsize"
    /\ LogMessage(w, [kind |-> "chunk",
                      number |-> Format03d(th[w].chunk_number),
                      size |-> th[w].size,
                      actual_size |-> Size(disk[th[w].chunk_file_name])])
    /\ th' = [th EXCEPT ![w].pc = "loop", ![w].chunk_number = @ + 1]
    /\ UNCHANGED <<dir_exists, disk, after_queue>>
    /\ WorkerFrame

\* ReadRest without the read: the bytes after the plan are dropped
ReadRest_Dropped(w) ==
    /\ th[w].pc = "loop"
    /\ th[w].i = Len(th[w].chunk_sizes)
    /\ th' = [th EXCEPT ![w].pc = "exit"]
    /\ UNCHANGED <<dir_exists, disk, log_queue, after_queue>>
    /\ WorkerFrame

\* lines 59-60: remaining_data = file.read(), after the plan
ReadRest(w) ==
    /\ th[w].pc = "loop"
    /\ th[w].i = Len(th[w].chunk_sizes)
    /\ LET n == source_size - th[w].file_pos
       IN  th' = [th EXCEPT ![w].pc = IF n > 0 THEN "rest_open" ELSE "exit",
                            ![w].remaining_data = Slice(th[w].file_pos, n),
                            ![w].file_pos = @ + n]
    /\ UNCHANGED <<dir_exists, disk, log_queue, after_queue>>
    /\ WorkerFrame

\* lines 61-63: the file of the remaining data is opened
OpenRest(w) ==
    /\ th[w].pc = "rest_open"
    /\ LET chunk_file_name == Format03d(th[w].chunk_number)
       IN  /\ disk' = Truncated(disk, chunk_file_name)
           /\ th' = [th EXCEPT ![w].pc = "rest_write",
                               ![w].chunk_file_name = chunk_file_name,
                               ![w].chunk_open = TRUE,
                               ![w].chunk_pos = 0,
                               ![w].opened = Append(@,
                                   [entry |-> 0,
                                    number |-> th[w].chunk_number,
                                    name |-> chunk_file_name])]
    /\ UNCHANGED <<dir_exists, log_queue, after_queue>>
    /\ WorkerFrame

\* line 64: chunk_file.write(remaining_data)
WriteRest(w) ==
    /\ th[w].pc = "rest_write"
    /\ disk' = [disk EXCEPT ![th[w].chunk_file_name] =
                    WriteAt(@, th[w].chunk_pos, th[w].remaining_data)]
    /\ th' = [th EXCEPT ![w].pc = "rest_close",
                        ![w].chunk_pos = @ + Size(th[w].remaining_data)]
    /\ UNCHANGED <<dir_exists, log_queue, after_queue>>
    /\ WorkerFrame

\* the end of the with block of line 63
CloseRest(w) ==
    /\ th[w].pc = "rest_close"
    /\ th' = [th EXCEPT ![w].pc = "rest_log", ![w].chunk_open = FALSE]
    /\ UNCHANGED <<dir_exists, disk, log_queue, after_queue>>
    /\ WorkerFrame

\* line 65: the message of the remaining data
LogRest(w) ==
    /\ th[w].pc = "rest_log"
    /\ LogMessage(w, [kind |-> "rest",
                      name |-> th[w].chunk_file_name,
                      size |-> Size(th[w].remaining_data)])
    /\ th' = [th EXCEPT ![w].pc = "exit"]
    /\ UNCHANGED <<dir_exists, disk, after_queue>>
    /\ WorkerFrame

\* the end of the with block of line 40: the source is closed, split_file returns
ReturnSplit(w) ==
    /\ th[w].pc = "exit"
    /\ th' = [th EXCEPT ![w].pc = "returned", ![w].file_open = FALSE]
    /\ UNCHANGED <<dir_exists, disk, log_queue, after_queue>>
    /\ WorkerFrame

\* the file operations that can raise OSError, by the step about to run
CanRaise(w) ==
    \/ th[w].pc = "makedirs" /\ ~dir_exists
    \/ th[w].pc \in {"open_file", "loop", "copy", "write", "close", "getsize",
                     "rest_open", "rest_write", "rest_close"}

\* a file operation raises: a failing write may have written a part of its
\* data; the with blocks close the chunk file and the source; the exception
\* leaves split_file
Raise(w) ==
    /\ CanRaise(w)
    /\ \E part \in {0, 1} :
          LET data == IF th[w].pc = "write" THEN th[w].chunk
                      ELSE IF th[w].pc = "rest_write" THEN th[w].remaining_data
                      ELSE <<>>
              n == IF part = 0 THEN 0 ELSE Size(data) \div 2
          IN  /\ (part = 1 => n > 0)
              /\ disk' = IF n > 0
                         THEN [disk EXCEPT ![th[w].chunk_file_name] =
                                  WriteAt(@, th[w].chunk_pos, TakeBytes(data, n))]
                         ELSE disk
    /\ th' = [th EXCEPT ![w].pc = "raised", ![w].error = th[w].pc,
                        ![w].chunk_open = FALSE, ![w].file_open = FALSE]
    /\ UNCHANGED <<dir_exists, log_queue, after_queue>>
    /\ WorkerFrame

(***************************************************************************)
(* run_split, the body of the worker thread (lines 182-193).               *)
(***************************************************************************)
\* Complete without the completion message
Complete_Silent(w) ==
    /\ th[w].pc = "returned"
    /\ th' = [th EXCEPT ![w].pc = "done"]
    /\ UNCHANGED <<dir_exists, disk, log_queue, after_queue>>
    /\ WorkerFrame

\* line 190: split_file returned
Complete(w) ==
    /\ th[w].pc = "returned"
    /\ LogMessage(w, [kind |-> "done"])
    /\ th' = [th EXCEPT ![w].pc = "done"]
    /\ UNCHANGED <<dir_exists, disk, after_queue>>
    /\ WorkerFrame

\* Except reporting completion: the exception is swallowed
Except_ReportsDone(w) ==
    /\ th[w].pc = "raised"
    /\ LogMessage(w, [kind |-> "done"])
    /\ th' = [th EXCEPT ![w].pc = "failed"]
    /\ UNCHANGED <<dir_exists, disk, after_queue>>
    /\ WorkerFrame

\* lines 191-193: the exception is logged and a message box is scheduled
Except(w) ==
    /\ th[w].pc = "raised"
    /\ LogMessage(w, [kind |-> "error", error |-> th[w].error])
    /\ after_queue' = Append(after_queue, [by |-> w, error |-> th[w].error])
    /\ th' = [th EXCEPT ![w].pc = "failed"]
    /\ UNCHANGED <<dir_exists, disk>>
    /\ WorkerFrame

Worker(w) ==
    \/ MakeDirs(w) \/ OpenFile(w) \/ OpenChunk(w) \/ ReadChunk(w)
    \/ WriteChunk(w) \/ CloseChunk(w) \/ LogChunk(w) \/ ReadRest(w)
    \/ OpenRest(w) \/ WriteRest(w) \/ CloseRest(w) \/ LogRest(w)
    \/ ReturnSplit(w) \/ Raise(w) \/ Complete(w) \/ Except(w)

(***************************************************************************)
(* split_file called once by run_split with a plan of byte counts: the     *)
(* source size, the plan and the output directory are drawn at the start.  *)
(***************************************************************************)
SeqsUpTo(S, n) == UNION {[1..k -> S] : k \in 0..n}

\* small sources and every plan up to MaxPlanLen over a few byte counts
SmallSizes == {0, 4}
SmallCounts == {0, 1, 2, 5}

\* sources and byte counts on both sides of the 1 MiB read
BigSize == 2500000
BigPlans == {<<>>, <<1500000>>, <<ReadMax, ReadMax>>,
             <<ReadMax, ReadMax, ReadMax>>, <<ReadMax + 1, 0, 2000000>>}

\* a plan of LongPlanLen chunks of one byte
LongPlan == [k \in 1..LongPlanLen |-> 1]

\* the output directory before the call: absent, empty, or holding the
\* files 001 and 003 of an earlier split of another source
StaleDisk == (Format03d(1) :> <<Ext(Hole, 9)>>) @@ (Format03d(3) :> <<Ext(Hole, 2)>>)
NoFiles == <<>>
OutputDirs == {<<FALSE, NoFiles>>, <<TRUE, NoFiles>>, <<TRUE, StaleDisk>>}

SplitInputs ==
    (SmallSizes \X SeqsUpTo(SmallCounts, MaxPlanLen) \X OutputDirs)
    \cup ({BigSize} \X BigPlans \X OutputDirs)
    \cup {<<LongPlanLen, LongPlan, <<TRUE, NoFiles>>>>}

\* the call is about to start on the input in
CallStart(in) ==
    /\ source_size = in[1]
    /\ th = [w \in Threads |->
                IF w = 1 THEN StartedThread(in[2], FALSE) ELSE IdleThread]
    /\ dir_exists = in[3][1]
    /\ disk = in[3][2]
    /\ log_queue = <<>>

\* the number a chunk file name stands for
RECURSIVE NameNumber(_)
NameNumber(name) ==
    IF name = <<>> THEN 0
    ELSE 10 * NameNumber(SubSeq(name, 1, Len(name) - 1)) + DigitVal(name[Len(name)])

\* the call on LongPlan, over a source of LongPlanLen bytes and from an
\* empty directory, at the head of the loop with n chunks finished.  The
\* call reaches this state from CallStart as well; starting from it too
\* keeps the behaviours that pass index 999 short.
LongCallAfter(n) ==
    /\ source_size = LongPlanLen
    /\ th = [w \in Threads |->
                IF w = 1
                THEN [StartedThread(LongPlan, FALSE) EXCEPT
                         !.pc = "loop", !.i = n, !.chunk_number = n + 1,
                         !.size = 1, !.remaining = 0,
                         !.chunk = Slice(n - 1, 1),
                         !.file_open = TRUE, !.file_pos = n,
                         !.chunk_file_name = Format03d(n), !.chunk_pos = 1,
                         !.opened = [k \in 1..n |->
                                        [entry |-> k, number |-> k,
                                         name |-> Format03d(k)]]]
                ELSE IdleThread]
    /\ dir_exists = TRUE
    /\ disk = [name \in {Format03d(k) : k \in 1..n} |->
                  Slice(NameNumber(name) - 1, 1)]
    /\ log_queue = [k \in 1..n |->
                       [by |-> 1, kind |-> "chunk", number |-> Format03d(k),
                        size |-> 1, actual_size |-> 1]]

InitSplit ==
    /\ \/ \E in \in SplitInputs : CallStart(in)
       \/ LongCallAfter(LongPlanLen - 2)
    /\ log_area = <<>>
    /\ after_queue = <<>>
    /\ ui = NoPress
    /\ token = <<>>
    /\ parsed = NotCalled

NextSplit == \E w \in Threads : Worker(w)

SpecSplit == InitSplit /\ [][NextSplit]_vars

(***************************************************************************)
(* split_file called twice in sequence with the same arguments: when the   *)
(* first call has completed, a second run_split is started on the same     *)
(* source, output directory and plan.                                      *)
(***************************************************************************)
\* the second call starts; the directory as the first call left it is kept
\* in dir_before
CallAgain ==
    /\ th[1].pc = "done"
    /\ th[2].pc = "idle"
    /\ th' = [th EXCEPT ![2] = [StartedThread(th[1].chunk_sizes, FALSE)
                                   EXCEPT !.dir_before = disk]]
    /\ UNCHANGED <<source_size, dir_exists, disk, log_queue, log_area,
                   after_queue, ui, token, parsed>>

NextTwice ==
    \/ \E w \in Threads : Worker(w)
    \/ CallAgain

SpecTwice == InitSplit /\ [][NextTwice]_vars

(***************************************************************************)
(* split_file called once and run with no I/O error: the thread that runs  *)
(* it is scheduled as long as it has a step to take.                       *)
(***************************************************************************)
\* the steps of split_file in thread w, none of them raising
SplitStep(w) ==
    \/ MakeDirs(w) \/ OpenFile(w) \/ OpenChunk(w) \/ ReadChunk(w)
    \/ WriteChunk(w) \/ CloseChunk(w) \/ LogChunk(w) \/ ReadRest(w)
    \/ OpenRest(w) \/ WriteRest(w) \/ CloseRest(w) \/ LogRest(w)
    \/ ReturnSplit(w)

NextTerm == \E w \in Threads : SplitStep(w)

SpecTerm == InitSplit /\ [][NextTerm]_vars /\ WF_vars(NextTerm)

(***************************************************************************)
(* parse_size called once on a token.                                      *)
(***************************************************************************)
\* numerals: short, with a fraction, past 2^53, and malformed
NumberStrs ==
    {<<"0">>, <<"5">>, <<"1", "2">>, <<"1", "0", "0">>, <<"1", ".", "5">>,
     <<"0", ".", "1">>, <<"1", ".", "1">>, <<"2", ".", "5">>, <<"5", ".">>,
     <<"0", "0", "7">>,
     <<"9", "0", "0", "7", "1", "9", "9", "2", "5", "4", "7", "4", "0", "9", "9", "3">>,
     <<"9", "0", "0", "7", "1", "9", "9", "2", "5", "4", "7", "4", "0", "9", "9", "2">>,
     <<"0", ".", "9", "9", "9", "9", "9", "9", "9", "9", "9", "9", "9", "9", "9", "9", "9", "9", "9">>,
     <<"4", "5", "0", "3", "5", "9", "9", "6", "2", "7", "3", "7", "0", "4", "9", "7", ".", "5">>,
     <<".", "5">>, <<"5", ".", "5", ".", "5">>, <<"-", "5">>, <<>>}

\* units in both cases, doubled, unknown, after white space
SuffixStrs ==
    {<<>>, <<"b">>, <<"k">>, <<"k", "b">>, <<"m">>, <<"m", "b">>, <<"g">>,
     <<"g", "b">>, <<"B">>, <<"K", "B">>, <<"M", "b">>, <<"G">>,
     <<"b", "b">>, <<"x">>, <<"x", "b">>, <<" ", "k", "b">>,
     <<"k", "b", "b">>, <<"\t", "m">>}

\* a numeral of MaxDigits + 1 digits, past the largest float
HugeNumber == <<"2">> \o [k \in 1..MaxDigits |-> "0"]

\* tokens with surrounding or inner white space, no number at all, and
\* numerals on both sides of the largest float
OtherTokens ==
    {HugeNumber, HugeNumber \o <<"k", "b">>, <<"0">> \o HugeNumber,
     HugeNumber \o <<"x">>, <<"a", "b", "c">>, <<" ", "1", "0", "0", " ">>,
     <<"\t", "1", ".", "5", "M", "B", " ">>, <<" ">>, <<"1", " ", "0">>,
     <<"5", " ", ".", " ", "5", " ", "k", "b">>}

Tokens == {n \o u : n \in NumberStrs, u \in SuffixStrs} \cup OtherTokens

InitParse ==
    /\ token \in Tokens
    /\ parsed = NotCalled
    /\ source_size = 0
    /\ th = [w \in Threads |-> IdleThread]
    /\ dir_exists = FALSE
    /\ disk = NoFiles
    /\ log_queue = <<>>
    /\ log_area = <<>>
    /\ after_queue = <<>>
    /\ ui = NoPress

Parse ==
    /\ parsed = NotCalled
    /\ parsed' = parse_size(token)
    /\ UNCHANGED <<token, source_size, th, dir_exists, disk, log_queue,
                   log_area, after_queue, ui>>

NextParse == Parse

SpecParse == InitParse /\ [][NextParse]_vars


(***************************************************************************)
(* The window: start_split on the start button, process_log_queue on its   *)
(* timer, the callbacks scheduled by workers.                              *)
(***************************************************************************)
\* str.split(): the runs of characters between white space, in order
SplitWs(s) ==
    LET starts == {i \in 1..Len(s) :
                      s[i] \notin Whitespace /\ (i = 1 \/ s[i - 1] \in Whitespace)}
        EndOf(i) == CHOOSE j \in i..Len(s) :
                       /\ \A k \in i..j : s[k] \notin Whitespace
                       /\ (j = Len(s) \/ s[j + 1] \in Whitespace)
        Nth(n) == CHOOSE i \in starts :
                      Cardinality({j \in starts : j < i}) = n - 1
    IN  [n \in 1..Cardinality(starts) |-> SubSeq(s, Nth(n), EndOf(Nth(n)))]

\* the sizes parsed, or the exception of the first token rejected
ParseAll(res) ==
    LET bad == {k \in 1..Len(res) : ~res[k].ok}
    IN  IF bad = {}
        THEN [ok |-> TRUE,
              chunk_sizes |-> [k \in 1..Len(res) |-> BToInt(res[k].val)]]
        ELSE [ok |-> FALSE,
              err |-> res[CHOOSE k \in bad : \A j \in bad : k <= j].err]

\* lines 147-155: the sizes of the entry, or the exception of the first
\* token that parse_size rejects
ParseEntry(chunk_sizes_str) ==
    LET all  == SplitWs(chunk_sizes_str)
        kept == {k \in 1..Len(all) : Strip(all[k]) # <<>>}
        toks == [n \in 1..Cardinality(kept) |->
                    all[CHOOSE k \in kept :
                            Cardinality({j \in kept : j < k}) = n - 1]]
    IN  CHOOSE r \in {ParseAll(res) :
                        res \in {[k \in 1..Len(toks) |-> parse_size(toks[k])]}} : TRUE

\* num_chunks = total_size // chunk_size without the round up of lines 166-167
NumChunks_Floor(total_size, chunk_size) == total_size \div chunk_size

\* lines 165-167
NumChunks(total_size, chunk_size) ==
    (total_size \div chunk_size)
    + (IF total_size % chunk_size # 0 THEN 1 ELSE 0)

\* chunk_sizes left as the one size parsed
Expand_Single(chunk_size, num_chunks) == <<chunk_size>>

\* line 168: [chunk_size] * num_chunks
Expand(chunk_size, num_chunks) == [k \in 1..num_chunks |-> chunk_size]

\* line 158: the user entered one size only
IsAuto(chunk_sizes) == Len(chunk_sizes) = 1

\* lines 158-168: the plan handed to the worker, one size repeated over the
\* source or the sizes as entered
AutoPlan(total_size, chunk_sizes) ==
    IF IsAuto(chunk_sizes)
    THEN Expand(chunk_sizes[1], NumChunks(total_size, chunk_sizes[1]))
    ELSE chunk_sizes

\* the entries of the size field tried on the small sources: none, one size
\* below and at the source size, several sizes, zero, malformed tokens, and
\* a numeral past the largest float
SmallEntries ==
    {<<>>, <<"2">>, <<"3">>, <<"1", "\t", " ", "1">>, <<"0">>,
     <<"a", "b", "c">>, <<"2", " ", "x">>, HugeNumber}

\* the entries tried on the source of BigSize bytes
BigEntries ==
    {<<"1", "m", "b">>, <<"0", "m", "b">>, <<"1", "M", "B", " ", "k", "b">>}

SourceSizes == {0, 3, BigSize}

EntriesFor(T) == IF T = BigSize THEN BigEntries ELSE SmallEntries

\* what lines 147-155 make of each entry
Parsed == [e \in SmallEntries \cup BigEntries |-> ParseEntry(e)]

\* the paths of the file field: none, a file that does not exist, the source
SourcePath == "source"
InputFiles == {"", "missing", SourcePath}
\* the paths of the directory field: none, the output directory
OutputPaths == {"", "out"}

\* lines 131-195: the start button is pressed with the three fields filled
\* in; press k starts thread k, or shows an error and starts none
start_split(input_file, output_dir, chunk_sizes_str) ==
    LET w == ui.presses + 1
        Show(result) ==
            ui' = [presses |-> w, size_entry |-> chunk_sizes_str,
                   result |-> result]
        Return(result) == Show(result) /\ UNCHANGED <<dir_exists, th>>
    IN  /\ ui.presses < MaxPresses
        /\ UNCHANGED <<source_size, disk, log_queue, log_area, after_queue,
                       token, parsed>>
        /\ \E p \in {Parsed[chunk_sizes_str]} :
           IF input_file = "" THEN Return("no_input_file")
           ELSE IF input_file # SourcePath THEN Return("input_file_missing")
           ELSE IF output_dir = "" THEN Return("no_output_dir")
           ELSE IF ~p.ok /\ p.err = "overflow" THEN Return("uncaught_exception")
           ELSE IF ~p.ok THEN Return("size_format_error")
           ELSE IF IsAuto(p.chunk_sizes) /\ p.chunk_sizes[1] <= 0
                THEN Return("auto_split_failed")
           ELSE \/ /\ ~dir_exists
                   /\ Return("makedirs_failed")
                \/ \E chunk_sizes \in {AutoPlan(source_size, p.chunk_sizes)} :
                   /\ dir_exists' = TRUE
                   /\ th' = [th EXCEPT ![w] =
                                StartedThread(chunk_sizes, IsAuto(p.chunk_sizes))]
                   /\ Show("started")

\* process_log_queue that takes the messages off the queue and inserts all
\* but the last
process_log_queue_DropsLast ==
    /\ log_area' = log_area \o SubSeq(log_queue, 1, Len(log_queue) - 1)
    /\ log_queue' = <<>>
    /\ UNCHANGED <<source_size, dir_exists, disk, th, after_queue, ui, token,
                   parsed>>

\* lines 121-129: the queue is drained into the log area
process_log_queue ==
    /\ log_area' = log_area \o log_queue
    /\ log_queue' = <<>>
    /\ UNCHANGED <<source_size, dir_exists, disk, th, after_queue, ui, token,
                   parsed>>

\* line 193: the callback a failed worker scheduled runs.  Its lambda reads
\* e after the except block has unbound it, so it raises NameError and shows
\* no message box
AfterCallback ==
    /\ after_queue # <<>>
    /\ after_queue' = Tail(after_queue)
    /\ UNCHANGED <<source_size, dir_exists, disk, th, log_queue, log_area, ui,
                   token, parsed>>

Init ==
    /\ source_size \in SourceSizes
    /\ dir_exists \in BOOLEAN
    /\ disk = NoFiles
    /\ th = [w \in Threads |-> IdleThread]
    /\ log_queue = <<>>
    /\ log_area = <<>>
    /\ after_queue = <<>>
    /\ ui = NoPress
    /\ token = <<>>
    /\ parsed = NotCalled

Next ==
    \/ \E input_file \in InputFiles, output_dir \in OutputPaths,
          chunk_sizes_str \in EntriesFor(source_size) :
          start_split(input_file, output_dir, chunk_sizes_str)
    \/ process_log_queue
    \/ AfterCallback
    \/ \E w \in Threads : Worker(w)

Spec == Init /\ [][Next]_vars


\* the window over the small source with its output directory present, the
\* timer of process_log_queue (lines 75, 129) firing again and again
InitLog == Init /\ source_size = 3 /\ dir_exists

\* the size entries tried there: two sizes short of the source, rejected
\* tokens
LogEntries == {<<"1", "\t", " ", "1">>, <<"a", "b", "c">>}

NextLog ==
    \/ \E chunk_sizes_str \in LogEntries :
          start_split(SourcePath, "out", chunk_sizes_str)
    \/ process_log_queue
    \/ AfterCallback
    \/ \E w \in Threads : Worker(w)

SpecLog == InitLog /\ [][NextLog]_vars /\ WF_vars(process_log_queue)

(***************************************************************************)
(* Properties of one split_file call (SpecSplit).                          *)
(***************************************************************************)
RECURSIVE SumRange(_, _, _)
SumRange(s, lo, hi) ==
    IF lo > hi THEN 0
    ELSE IF lo = hi THEN s[lo]
    ELSE SumRange(s, lo, (lo + hi) \div 2) + SumRange(s, ((lo + hi) \div 2) + 1, hi)

Sum(s) == SumRange(s, 1, Len(s))

\* the files o[lo..hi] of the directory d, concatenated
RECURSIVE CatFiles(_, _, _, _)
CatFiles(d, o, lo, hi) ==
    IF lo > hi THEN <<>>
    ELSE IF lo = hi THEN d[o[lo].name]
    ELSE Cat(CatFiles(d, o, lo, (lo + hi) \div 2),
             CatFiles(d, o, ((lo + hi) \div 2) + 1, hi))

\* the sizes of the files o[lo..hi] of the directory d, added up
RECURSIVE SizeFiles(_, _, _, _)
SizeFiles(d, o, lo, hi) ==
    IF lo > hi THEN 0
    ELSE IF lo = hi THEN Size(d[o[lo].name])
    ELSE SizeFiles(d, o, lo, (lo + hi) \div 2)
         + SizeFiles(d, o, ((lo + hi) \div 2) + 1, hi)

\* split_file has returned in thread w
Completed(w) == th[w].pc \in {"returned", "done"}

\* a content that is one run of consecutive source bytes, or empty
IsSourceSlice(c) == c = <<>> \/ (Len(c) = 1 /\ c[1].off # Hole /\ c[1].len > 0)

\* C1: when split_file completes, the chunk files it produced, taken in
\* increasing index order, are contiguous slices of the source that
\* concatenate to exactly the source, and their sizes add up to its size.
C1_ChunksConcatenateToSource ==
    \A w \in Threads : Completed(w) =>
        LET o == th[w].opened
        IN  /\ \A k \in 1..(Len(o) - 1) : o[k].number < o[k + 1].number
            /\ \A k \in 1..Len(o) :
                  o[k].name \in DOMAIN disk /\ IsSourceSlice(disk[o[k].name])
            /\ CatFiles(disk, o, 1, Len(o)) = Whole(source_size)
            /\ SizeFiles(disk, o, 1, Len(o)) = source_size

\* a completed call that filled two planned chunks and a remainder chunk
C1_Witness ==
    \E w \in Threads :
        /\ th[w].pc = "done"
        /\ Len(th[w].opened) = 3
        /\ th[w].opened[3].entry = 0
        /\ \A k \in 1..3 : Size(disk[th[w].opened[k].name]) > 0

Max(a, b) == IF a > b THEN a ELSE b

\* the call in thread w wrote a file for the remaining data
HasRest(w) == th[w].opened # <<>> /\ th[w].opened[Len(th[w].opened)].entry = 0

\* C3: a completed split_file has written a trailing remainder chunk if and
\* only if sum(plan) < T, holding exactly the T - sum(plan) bytes after the
\* plan; with sum(plan) >= T there is none, and every planned chunk holds
\* its size or, from the chunk in which the source ends, what was left.
C3_RemainderIffPlanShort ==
    \A w \in Threads : Completed(w) =>
        LET o    == th[w].opened
            plan == th[w].chunk_sizes
            P    == Sum(plan)
            T    == source_size
        IN  /\ HasRest(w) <=> P < T
            /\ Len(o) = Len(plan) + (IF HasRest(w) THEN 1 ELSE 0)
            /\ HasRest(w) => disk[o[Len(o)].name] = Slice(P, T - P)
            /\ \A k \in 1..Len(plan) :
                  Size(disk[o[k].name])
                     = Min(plan[k], Max(0, T - SumRange(plan, 1, k - 1)))

\* a completed call whose plan is longer than the source: a chunk cut at EOF
C3_Witness ==
    \E w \in Threads :
        /\ th[w].pc = "done"
        /\ Sum(th[w].chunk_sizes) > source_size
        /\ ~HasRest(w)
        /\ \E k \in 1..Len(th[w].opened) :
              /\ Size(disk[th[w].opened[k].name]) > 0
              /\ Size(disk[th[w].opened[k].name]) < th[w].chunk_sizes[k]

\* C5: the chunk indices a call uses are 1, 2, ... in production order:
\* plan entry i is written to index i and the remainder chunk, when there
\* is one, to index len(plan) + 1.
C5_IndicesInOrder ==
    \A w \in Threads :
        LET o == th[w].opened
        IN  \A k \in 1..Len(o) :
                /\ o[k].number = k
                /\ o[k].entry # 0 => o[k].entry = k
                /\ o[k].entry = 0 => k = Len(th[w].chunk_sizes) + 1 /\ k = Len(o)

\* a call that used the indices 1, 2, 3 for its plan and 4 for the remainder
C5_Witness ==
    \E w \in Threads :
        /\ Len(th[w].chunk_sizes) = 3
        /\ Len(th[w].opened) = 4
        /\ th[w].opened[4].number = 4
        /\ th[w].opened[4].entry = 0

\* C6 as claimed: the sequence-number suffix of every chunk file name is
\* exactly 3 decimal digits.
C6_SuffixIsThreeDigits ==
    \A w \in Threads :
        \A k \in 1..Len(th[w].opened) :
            /\ Len(th[w].opened[k].name) = 3
            /\ \A j \in 1..Len(th[w].opened[k].name) :
                  th[w].opened[k].name[j] \in Digits

\* an exception has left split_file in thread w
Failing(w) == th[w].pc \in {"raised", "failed"}

\* the messages thread w has put on the log queue
LoggedBy(w, kind) ==
    {k \in 1..Len(log_queue) : log_queue[k].by = w /\ log_queue[k].kind = kind}

\* the step in which a file operation of thread w fails leaves every file
\* but the chunk being produced as it was and creates none; afterwards the
\* call writes nothing and does not move again
C10_Step ==
    \A w \in Threads :
        /\ (~Failing(w) /\ th'[w].pc = "raised") =>
              /\ DOMAIN disk' = DOMAIN disk
              /\ \A name \in DOMAIN disk :
                    ~(th[w].chunk_open /\ name = th[w].chunk_file_name)
                       => disk'[name] = disk[name]
        /\ Failing(w) =>
              /\ disk' = disk
              /\ Failing(w)'
              /\ th'[w].i = th[w].i
              /\ th'[w].chunk_number = th[w].chunk_number
              /\ th'[w].file_pos = th[w].file_pos
              /\ th'[w].opened = th[w].opened
              /\ ~th'[w].chunk_open /\ ~th'[w].file_open

\* the caller's report: an error message and a message box, no completion
C10_Signal ==
    \A w \in Threads :
        /\ Failing(w) => LoggedBy(w, "done") = {}
        /\ th[w].pc = "failed" =>
              /\ log_queue # <<>>
              /\ log_queue[Len(log_queue)] = [by |-> w, kind |-> "error",
                                              error |-> th[w].error]
              /\ Cardinality(LoggedBy(w, "error")) = 1
              /\ [by |-> w, error |-> th[w].error]
                    \in {after_queue[k] : k \in 1..Len(after_queue)}

\* C10: an I/O failure while chunk i is produced creates and writes no chunk
\* file of a greater index, is not retried, leaves the chunk files finished
\* earlier unchanged, and reaches the caller as an error message in place
\* of the completion message.
C10_FailureStopsTheCall == [](C10_Signal) /\ [][C10_Step]_vars

\* a call that failed writing its second chunk, the first one on disk
C10_Witness ==
    \E w \in Threads :
        /\ th[w].pc = "failed"
        /\ th[w].error = "write"
        /\ Len(th[w].opened) = 2
        /\ Size(disk[th[w].opened[1].name]) = th[w].chunk_sizes[1]
        /\ th[w].chunk_sizes[1] > 0

(***************************************************************************)
(* Properties of parse_size (SpecParse).                                   *)
(***************************************************************************)
\* a non-negative decimal: digits, with an optional fractional part
IsDecimal(s) ==
    /\ s # <<>>
    /\ \A k \in 1..Len(s) : s[k] \in Digits \cup {"."}
    /\ s[1] \in Digits
    /\ DotCount(s) <= 1

\* the units of the grammar: none, b, k, kb, m, mb, g, gb
GrammarUnits == {<<>>, <<"b">>, <<"k">>, <<"k", "b">>, <<"m">>, <<"m", "b">>,
                 <<"g">>, <<"g", "b">>}

\* the numeral a token starts with, and the rest of it
NumberOf(tok) == SubSeq(tok, 1, NumEnd(tok))
UnitOf(tok) == Lower(SubSeq(tok, NumEnd(tok) + 1, Len(tok)))

\* <number><unit>?<"b">?, in any letter case
MatchesGrammar(tok) == IsDecimal(NumberOf(tok)) /\ UnitOf(tok) \in GrammarUnits

\* the digits of a decimal and the number of them after the dot
DecimalDigits(s) == SelectSeq(s, LAMBDA c : c # ".")
FractionLen(s) == IF DotCount(s) = 0 THEN 0
                  ELSE Len(s) - (CHOOSE k \in 1..Len(s) : s[k] = ".")

\* v = floor(num / den)
IsFloorOf(v, num, den) ==
    /\ BCmp(BMul(den, v), num) <= 0
    /\ BCmp(num, BMul(den, BAdd(v, BOne))) < 0

\* C7 as claimed: for every token of the grammar, parse_size returns
\* floor(n * multiplier), the multiplier being 1, 1024, 1024^2 or 1024^3.
C7_ParseIsFloorOfProduct ==
    (parsed # NotCalled /\ MatchesGrammar(token)) =>
        /\ parsed.ok
        /\ IsFloorOf(parsed.val,
                     BShl(DigitsToB(DecimalDigits(NumberOf(token))),
                          UnitExponent(RStripB(UnitOf(token)))),
                     BPow10(FractionLen(NumberOf(token))))

\* C8 as claimed: every token that is not empty after trimming and does not
\* match the grammar makes parse_size fail with a format error that carries
\* the token.
C8_RejectsOutsideGrammar ==
    (parsed # NotCalled /\ Strip(token) # <<>> /\ ~MatchesGrammar(Strip(token))) =>
        /\ ~parsed.ok
        /\ parsed.err = "format"
        /\ parsed.arg = Lower(Strip(token))

(***************************************************************************)
(* Properties of the window (Spec).                                        *)
(***************************************************************************)
\* thread w is the only one that was started
Alone(w) == \A v \in Threads \ {w} : th[v].pc = "idle"

\* C2: for T >= 1 and a single unit size U with 1 <= U <= T, auto-expansion
\* followed by split_file (run to completion, no other split running)
\* produces exactly ceil(T/U) chunk files whose sizes add up to T, every
\* one but possibly the last of U bytes, and no remainder chunk.
C2_SingleUnitSplitsEvenly ==
    \A w \in Threads :
        (/\ th[w].pc = "done"
         /\ th[w].auto
         /\ Alone(w)
         /\ source_size >= 1
         /\ th[w].chunk_sizes # <<>>
         /\ th[w].chunk_sizes[1] \in 1..source_size)
        => LET o == th[w].opened
               T == source_size
               U == th[w].chunk_sizes[1]
           IN  /\ ui.presses = w => Parsed[ui.size_entry].chunk_sizes = <<U>>
               /\ Len(o) = (T + U - 1) \div U
               /\ \A k \in 1..Len(o) : o[k].entry # 0
               /\ \A j, k \in 1..Len(o) : j # k => o[j].name # o[k].name
               /\ SizeFiles(disk, o, 1, Len(o)) = T
               /\ \A k \in 1..(Len(o) - 1) : Size(disk[o[k].name]) = U
               /\ Size(disk[o[Len(o)].name]) \in 1..U

\* a completed split by a unit size that does not divide the source size:
\* the last of several chunks is shorter
C2_Witness ==
    \E w \in Threads :
        /\ th[w].pc = "done"
        /\ th[w].auto
        /\ Alone(w)
        /\ ui.result = "started"
        /\ Len(th[w].opened) >= 2
        /\ source_size % th[w].chunk_sizes[1] # 0
        /\ th[w].chunk_sizes[1] <= source_size

\* C4 as claimed: every plan start_split hands to split_file has a sum of
\* at most the source size T.
C4_PlanSumAtMostSource ==
    \A w \in Threads :
        th[w].pc # "idle" => Sum(th[w].chunk_sizes) <= source_size

\* C4 amended: a plan auto-expanded from one token of unit size U has
\* ceil(T/U) entries, all U, so its sum is at least T and less than T + U.
C4_AutoPlanCoversSource ==
    \A w \in Threads :
        (th[w].pc # "idle" /\ th[w].auto) =>
            LET plan == th[w].chunk_sizes
                T    == source_size
            IN  \/ plan = <<>> /\ T = 0
                \/ /\ plan # <<>>
                   /\ plan[1] >= 1
                   /\ \A k \in 1..Len(plan) : plan[k] = plan[1]
                   /\ T <= Sum(plan)
                   /\ Sum(plan) < T + plan[1]

\* an auto-expanded plan of several entries whose sum is past the source size
C4_Witness ==
    \E w \in Threads :
        /\ th[w].pc # "idle"
        /\ th[w].auto
        /\ Len(th[w].chunk_sizes) >= 2
        /\ Sum(th[w].chunk_sizes) > source_size

\* what start_split shows in a message box
ErrorReports == {"no_input_file", "input_file_missing", "no_output_dir",
                 "size_format_error", "auto_split_failed", "makedirs_failed"}

\* a token of the entry fails to parse, or its sole token is a size <= 0
BadSizes(entry) ==
    LET toks == SplitWs(entry)
    IN  \/ \E k \in 1..Len(toks) : ~parse_size(toks[k]).ok
        \/ Len(toks) = 1 /\ parse_size(toks[1]).val = BZero

\* C9: when start_split is run on an entry with a token that fails to parse,
\* or whose sole token is a size <= 0, it ends with an error report, creates
\* no chunk file, and starts no worker thread (so split_file is not called).
C9_Step ==
    (ui'.presses = ui.presses + 1 /\ BadSizes(ui'.size_entry))
    => /\ ui'.result \in ErrorReports
       /\ disk' = disk
       /\ th' = th

C9_BadSizesAreReported == [][C9_Step]_vars

(***************************************************************************)
(* File handles of one split_file call (SpecSplit).                        *)
(***************************************************************************)
\* the steps of thread w in which a file is opened for writing
OpensChunk(w) == Len(th'[w].opened) = Len(th[w].opened) + 1

\* the source is opened once, while no handle is open; a chunk file is
\* opened only while the source is open and no chunk file is; the source
\* stays open until the call is left
C11_Step ==
    \A w \in Threads :
        /\ (~th[w].file_open /\ th'[w].file_open) =>
              th[w].pc = "open_file" /\ ~th[w].chunk_open /\ th[w].opened = <<>>
        /\ OpensChunk(w) =>
              th[w].file_open /\ ~th[w].chunk_open /\ th'[w].chunk_open
        /\ (th[w].file_open /\ ~th'[w].file_open) =>
              th'[w].pc \in {"returned", "raised"}

\* no handle is open before the source is opened or after the call is left,
\* and a chunk file is open only while the source is
C11_Closed ==
    \A w \in Threads :
        /\ (Completed(w) \/ Failing(w) \/ th[w].pc \in {"makedirs", "open_file"})
              => ~th[w].file_open /\ ~th[w].chunk_open
        /\ th[w].chunk_open => th[w].file_open

\* C11: one split_file call holds one source handle and at most one chunk
\* file handle at a time; every chunk file is closed before the next one is
\* opened, and when the call returns or fails no handle is left open.
C11_HandlesAreScoped == [](C11_Closed) /\ [][C11_Step]_vars

\* a call that failed writing its third chunk, the chunk file open until
\* then, and is left with no handle open
C11_Witness ==
    \E w \in Threads :
        /\ th[w].pc = "raised"
        /\ th[w].error = "write"
        /\ Len(th[w].opened) = 3
        /\ ~th[w].chunk_open
        /\ ~th[w].file_open

(***************************************************************************)
(* Progress messages of one split_file call (SpecSplit).                   *)
(***************************************************************************)
\* the messages of thread w on the log queue, in order
MsgsOf(w) == SelectSeq(log_queue, LAMBDA m : m.by = w)

\* the steps between the opening of a chunk file and its progress message
ChunkSteps == {"copy", "write", "close", "getsize"}

\* the number of plan entries whose chunk is finished and reported
Reported(w) ==
    IF \/ th[w].pc \in ChunkSteps
       \/ Failing(w) /\ th[w].error \in ChunkSteps
    THEN th[w].i - 1
    ELSE th[w].i

\* thread w puts a progress message of a planned chunk on the queue
LogsChunk(w) ==
    /\ Len(log_queue') = Len(log_queue) + 1
    /\ log_queue'[Len(log_queue')].by = w
    /\ log_queue'[Len(log_queue')].kind = "chunk"

\* one message per finished entry, in index order, with index and size
C12_Messages ==
    \A w \in Threads :
        LET ms == MsgsOf(w)
        IN  /\ Len(ms) >= Reported(w)
            /\ \A k \in 1..Len(ms) :
                  IF k <= Reported(w)
                  THEN /\ ms[k].kind = "chunk"
                       /\ ms[k].number = Format03d(k)
                       /\ ms[k].size = th[w].chunk_sizes[k]
                  ELSE ms[k].kind # "chunk"

\* the message of entry i is put after its file is closed, with the bytes
\* written into it, and the next file is opened after it
C12_Step ==
    \A w \in Threads :
        /\ LogsChunk(w) =>
              /\ ~th[w].chunk_open
              /\ th[w].opened[Len(th[w].opened)].entry = th[w].i
              /\ log_queue'[Len(log_queue')].actual_size = th[w].chunk_pos
        /\ (OpensChunk(w) /\ th[w].i > 0) =>
              /\ log_queue # <<>>
              /\ log_queue[Len(log_queue)].by = w
              /\ log_queue[Len(log_queue)].kind = "chunk"
              /\ log_queue[Len(log_queue)].number = Format03d(th[w].i)

\* C12: every plan entry i gets exactly one progress message, put after
\* chunk file i is closed and before chunk file i+1 is opened, in index
\* order, with the index i, the requested size and the number of bytes the
\* call wrote into chunk i.
C12_OneMessagePerEntry == [](C12_Messages) /\ [][C12_Step]_vars

\* a completed call that reported two chunks, one of them cut short at EOF
C12_Witness ==
    \E w \in Threads :
        /\ th[w].pc = "done"
        /\ Cardinality(LoggedBy(w, "chunk")) >= 2
        /\ \E k \in LoggedBy(w, "chunk") :
              /\ log_queue[k].actual_size > 0
              /\ log_queue[k].actual_size < log_queue[k].size

(***************************************************************************)
(* The messages of the runs started from the window (Spec).                *)
(***************************************************************************)
\* every message logged so far, in the order of log_message: those already
\* in the log area, then those still on the queue
Logged == log_area \o log_queue

\* the messages of thread w among those logged so far, in order
LoggedOf(w) == SelectSeq(Logged, LAMBDA m : m.by = w)

\* the messages that end a run
Terminal == {"done", "error"}

\* C13: a run that reaches the worker emits exactly one terminal message,
\* the completion message or an error message and never both, after every
\* chunk and remainder message of the run: a run still going has emitted
\* none, a run that ended has emitted one, as its last message.
C13_OneTerminalMessage ==
    \A w \in Threads :
        LET ms == LoggedOf(w)
            n  == Len(ms)
        IN  /\ \A k \in 1..(n - 1) : ms[k].kind \notin Terminal
            /\ th[w].pc \notin {"done", "failed"} =>
                  \A k \in 1..n : ms[k].kind \notin Terminal
            /\ th[w].pc = "done" => n >= 1 /\ ms[n].kind = "done"
            /\ th[w].pc = "failed" => n >= 1 /\ ms[n].kind = "error"

\* two runs started from the window, one ended with the completion message
\* after its chunk messages, the other with an error message after one
C13_Witness ==
    \E v, w \in Threads :
        /\ th[v].pc = "done"
        /\ th[w].pc = "failed"
        /\ Len(LoggedOf(v)) >= 3
        /\ Len(LoggedOf(w)) >= 2
        /\ ui.result = "started"

(***************************************************************************)
(* Two calls of split_file in sequence (SpecTwice).                        *)
(***************************************************************************)
\* C14: a second split_file call on the same unchanged source, output
\* directory and plan, made after the first has completed, numbers its
\* chunk files from 1 again and leaves the directory with the same files
\* and the same contents as the first call left it.
C14_SecondCallRepeatsFirst ==
    (Completed(1) /\ Completed(2)) =>
        /\ th[2].opened = th[1].opened
        /\ \A k \in 1..Len(th[2].opened) : th[2].opened[k].number = k
        /\ DOMAIN disk = DOMAIN th[2].dir_before
        /\ disk = th[2].dir_before

\* a second call completed that rewrote two planned chunks and a remainder
\* chunk, beside a file of an earlier split that neither call touched
C14_Witness ==
    /\ th[1].pc = "done"
    /\ th[2].pc = "done"
    /\ Len(th[2].opened) = 3
    /\ HasRest(2)
    /\ \A k \in 1..3 : Size(disk[th[2].opened[k].name]) > 0
    /\ th[2].dir_before # <<>>

(***************************************************************************)
(* Reads, positions and files of one split_file call (SpecSplit).          *)
(***************************************************************************)
\* C15 as claimed: every single read from the source, for a planned chunk
\* (chunk) and for the trailing remainder (remaining_data) alike, transfers
\* at most 1 MiB.
C15_ReadsAtMostOneMiB ==
    \A w \in Threads :
        /\ Size(th[w].chunk) <= ReadMax
        /\ Size(th[w].remaining_data) <= ReadMax


\* the read position of the source does not move back, and a file opened
\* for writing has a path that the call has not opened before
C16_Step ==
    \A w \in Threads :
        /\ th'[w].pc # "idle" => th'[w].file_pos >= th[w].file_pos
        /\ OpensChunk(w) =>
              th'[w].chunk_file_name
                 \notin {th[w].opened[k].name : k \in 1..Len(th[w].opened)}

\* C16: within one split_file call the read position of the source never
\* decreases, and each chunk file path is opened for writing once: a path
\* is never opened again after its file has been closed.
C16_SinglePass == [][C16_Step]_vars

\* a completed call that read the source to its end and opened three files
C16_Witness ==
    \E w \in Threads :
        /\ th[w].pc = "done"
        /\ Len(th[w].opened) = 3
        /\ th[w].file_pos = source_size
        /\ source_size > 0
        /\ th[w].chunk_sizes[1] > 0


\* C17: every plan entry produces its own chunk file and consumes one
\* index, short or not: an entry of size 0, and every entry processed after
\* the source is exhausted, yields an empty file, so a completed call has
\* created len(plan) files for the plan, and one more if and only if bytes
\* remain after the plan.
C17_OneFilePerEntry ==
    \A w \in Threads : Completed(w) =>
        LET o    == th[w].opened
            plan == th[w].chunk_sizes
            T    == source_size
        IN  /\ Len(o) = Len(plan) + (IF Sum(plan) < T THEN 1 ELSE 0)
            /\ \A k \in 1..Len(plan) :
                  /\ o[k].entry = k
                  /\ o[k].number = k
                  /\ o[k].name \in DOMAIN disk
                  /\ (plan[k] = 0 \/ SumRange(plan, 1, k - 1) >= T)
                        => disk[o[k].name] = <<>>

\* a completed call with an entry of size 0 and an entry after the end of
\* the source, each with its own empty file
C17_Witness ==
    \E w \in Threads :
        /\ th[w].pc = "done"
        /\ Len(th[w].chunk_sizes) = 3
        /\ Len(th[w].opened) = 3
        /\ source_size > 0
        /\ \E j, k \in 1..3 :
              /\ j # k
              /\ th[w].chunk_sizes[j] = 0
              /\ th[w].chunk_sizes[k] > 0
              /\ SumRange(th[w].chunk_sizes, 1, k - 1) >= source_size
              /\ disk[th[w].opened[j].name] = <<>>
              /\ disk[th[w].opened[k].name] = <<>>

(***************************************************************************)
(* Termination of split_file without I/O errors (SpecTerm).                *)
(***************************************************************************)
\* a read of the copy loop returns bytes still owed to the chunk, or none
\* and the loop is left; a write lowers the bytes owed; the plan loop moves
\* on by one entry at a time and not past the plan
C18_Step ==
    \A w \in Threads :
        /\ (th[w].pc = "copy" /\ th'[w] # th[w]) =>
              \/ th'[w].pc = "close" /\ th'[w].chunk = <<>>
              \/ /\ th'[w].pc = "write"
                 /\ Size(th'[w].chunk) \in 1..th[w].remaining
        /\ (th[w].pc = "write" /\ th'[w] # th[w]) =>
              /\ th'[w].remaining < th[w].remaining
              /\ th'[w].remaining >= 0
        /\ th'[w].i \in {th[w].i, th[w].i + 1}
        /\ th'[w].i <= Len(th'[w].chunk_sizes)

\* C18: with no I/O error split_file terminates: every round of the copy
\* loop lowers the bytes still owed to the chunk or leaves the loop at EOF,
\* the plan loop runs once per entry, and the call returns.
C18_Terminates ==
    /\ [][C18_Step]_vars
    /\ \A w \in Threads : (th[w].pc # "idle") ~> (th[w].pc = "returned")

\* a call returned from the large source after a chunk of several reads
\* and a chunk cut short at EOF
C18_Witness ==
    \E w \in Threads :
        /\ th[w].pc = "returned"
        /\ source_size = BigSize
        /\ Len(th[w].opened) = 3
        /\ th[w].chunk_sizes[1] > ReadMax
        /\ Sum(th[w].chunk_sizes) > source_size

(***************************************************************************)
(* Runs started from the window while another is going (Spec).             *)
(***************************************************************************)
\* C19 as claimed: two workers never have the same chunk file open for
\* writing at the same time.
C19_NoSharedChunkFile ==
    \A v, w \in Threads :
        (v # w /\ th[v].chunk_open /\ th[w].chunk_open)
            => th[v].chunk_file_name # th[w].chunk_file_name

(***************************************************************************)
(* The log queue and the log area (SpecLog).                               *)
(***************************************************************************)
\* a is a prefix of b
IsPrefix(a, b) == Len(a) <= Len(b) /\ SubSeq(b, 1, Len(a)) = a

\* a step adds at most one message, at the end of those logged so far, and
\* drops, repeats or reorders none; the log area grows at its end, by the
\* whole queue, in a step that is not a worker's
C20_Step ==
    /\ IsPrefix(Logged, Logged')
    /\ Len(Logged') <= Len(Logged) + 1
    /\ IsPrefix(log_area, log_area')
    /\ log_area' # log_area =>
          /\ log_area' = log_area \o log_queue
          /\ log_queue' = <<>>
          /\ th' = th

\* C20: every message a worker passes to log_message is appended to the
\* log area exactly once and in the order it was enqueued, no worker step
\* changes the log area, and while process_log_queue keeps running every
\* message on the queue is eventually in the log area.
C20_MessagesReachTheLogArea ==
    /\ [][C20_Step]_vars
    /\ (log_queue # <<>>) ~> (log_queue = <<>>)

\* the messages of two runs in the log area, interleaved as they were
\* enqueued, the queue empty
C20_Witness ==
    /\ log_queue = <<>>
    /\ \A w \in Threads : th[w].pc = "done"
    /\ \E j, k, l \in 1..Len(log_area) :
          /\ j < k /\ k < l
          /\ log_area[j].by = 1
          /\ log_area[k].by = 2
          /\ log_area[l].by = 1

=============================================================================
